---- MODULE Spec2Model ----
(***************************************************************************)
(* State-machine model of the AR ball sandbox (Cesarus85/balls).           *)
(* The latest snapshot, src/unnamed/part_002, is the program modelled;     *)
(* where src/src/main.js differs, the difference is noted at the           *)
(* definition.  Every handler of the program (animation-loop callback,     *)
(* selectstart, connected, sessionstart and its awaited continuations,     *)
(* sessionend, the setTimeout callback of spawnBall) is one atomic action: *)
(* JavaScript runs each of them to completion on a single thread.          *)
(***************************************************************************)
EXTENDS Integers, Sequences, FiniteSets, TLC

(***************************************************************************)
(* Bounds.  The program's numbers are scaled down to a clock of a few      *)
(* ticks and a handful of projectiles; the source value is given beside    *)
(* each.                                                                   *)
(***************************************************************************)
\* part_002:33  BALL_LIMIT = 200
BALL_LIMIT == 2
\* part_002:34  BALL_LIFETIME = 20 * 1000 (ms); here in clock ticks
BALL_LIFETIME == 1
\* part_002:36  BALL_NO_COLLISION_MS = 60 (ms); here in clock ticks
BALL_NO_COLLISION_MS == 1
\* number of distinct floor heights a hit-test pose can report
MaxHeight == 2
\* most manually placed surfaces (the source has no cap, spec section 9)
MaxColliders == 1
\* most awaited continuations of sessionstart handlers in flight
MaxPending == 1
\* part_002:714-715  squeezeTimer >= 1.0 at FIXED_DT = 1/60: 60 frames
SQUEEZE_FRAMES == 2

\* part_002:16  MAX_MESHES = 40
MAX_MESHES == 2
\* part_002:17  MAX_TRIANGLES_PER_MESH = 3000
MAX_TRIANGLES_PER_MESH == 2
\* part_002:18  MAX_MESH_DISTANCE = 6.5 (m); lengths are in units of 0.5 m
MAX_MESH_DISTANCE == 13
\* part_002:19
DETECTED_MESH_UPDATE_RATE == 2
\* most trimesh bodies created in a run
MaxBodies == 3
\* largest lastChangedTime a detected mesh reports
MaxTag == 2

\* detected surfaces (XRMesh objects): two more than the count cap
Surfaces == 1..(MAX_MESHES + 2)

\* projectiles ever spawned in a run: enough to overflow the cap twice
MaxSpawn == BALL_LIMIT + 2
\* last clock value: a projectile born at tick 0 has expired, one born at
\* tick 1 has not
MaxTime == BALL_LIFETIME + 1

Heights == 1..MaxHeight
Controllers == {"controller0", "controller1"}
Null == "null"

\* an XRPose, reduced to the vertical coordinate of transform.position
Pose(h) == [y |-> h]
NoPose == [null |-> TRUE]
Poses == {Pose(h) : h \in Heights}

\* meshMap.get(xrmesh) === undefined
NoRec == [none |-> TRUE]

\* frame.detectedMeshes: undefined on a device without mesh detection, null,
\* or the detected meshes in iteration order
\* the value of frameLog while no log is kept
LogOff == <<"off">>

\* the value of visuals while it is not kept
SyncOff == [off |-> TRUE]

NoDetection == [defined |-> FALSE, present |-> FALSE, meshes |-> <<>>]
NullDetection == [defined |-> TRUE, present |-> FALSE, meshes |-> <<>>]
Detected(meshes) == [defined |-> TRUE, present |-> TRUE, meshes |-> meshes]

VARIABLES
  now,              \* performance.now()
  nextId,           \* ordinal of the next projectile created (identity of mesh/body)
  balls,            \* part_002:252  balls = []  of {mesh, body, bornAt}
  sceneBalls,       \* projectile meshes that are children of scene
  worldBalls,       \* projectile bodies that are in world.bodies
  collisionOff,     \* projectile bodies with collisionResponse === false
  timers,           \* pending setTimeout callbacks of spawnBall: {id, due}
  floorLocked,      \* part_002:123
  lastHitPose,      \* part_002:124
  reticleVisible,   \* reticle.visible
  reticleY,         \* reticle.position.y
  groundY,          \* groundBody.position.y
  gridY,            \* grid.position.y
  xrActive,         \* part_002:86
  xrSession,        \* part_002:85 (TRUE: non-null)
  viewerSpace,      \* part_002:85 (TRUE: non-null)
  refSpace,         \* part_002:85 (TRUE: non-null)
  hitTestSource,    \* part_002:85 (TRUE: non-null)
  pendViewer,       \* sessionstart handlers suspended at await requestReferenceSpace
  pendHit,          \* sessionstart handlers suspended at await requestHitTestSource
  signVisible,      \* signMesh.visible
  uiVisible,        \* uiRoot.visible
  menuPrev,         \* part_002:207
  squeezeTimer,     \* part_002:208, in frames
  meshCollisionsEnabled, \* part_002:42
  meshMap,          \* part_002:361  XRMesh -> {body, lastChangedTime, radius}
  meshFrameCounter, \* part_002:362
  worldMeshes,      \* trimesh bodies that are in world.bodies
  nextBody,         \* ordinal of the next trimesh body created (its identity)
  sceneDebug,       \* debug wireframes that are in the scene, by their body
  removeReq,        \* per trimesh body, the world.removeBody calls made for it
  leftController,   \* part_002:204
  rightController,  \* part_002:204
  leftGrip,         \* part_002:205
  colliders,        \* part_002:333  colliders = [] of {mesh, body}
  sceneColliders,   \* placed-surface meshes that are children of scene
  worldColliders,   \* placed-surface bodies that are in world.bodies
  streak,           \* history: spawns since the last expiry or clear-all, saturating
  lockCount,        \* history: floor-lock transitions since the last sessionstart
  lastDetected,     \* history: frame.detectedMeshes of the latest frame, if
                    \* that frame's call of handleDetectedMeshes went past
                    \* its two early returns
  meshCalls,        \* history: the calls of handleDetectedMeshes made so
                    \* far, counted modulo DETECTED_MESH_UPDATE_RATE
  frameThrew,       \* history: an exception left the latest animation-loop
                    \* callback
  frameLog,         \* history: the steps the latest animation-loop callback
                    \* ran, in order; LogOff while no log is kept
  visuals           \* lag: the projectiles whose mesh may not have the
                    \* position and quaternion of its body; stale: those
                    \* among them that were listed when renderer.render
                    \* last ran; SyncOff while not kept

ballVars == <<nextId, balls, sceneBalls, worldBalls, collisionOff, timers>>
floorVars == <<floorLocked, lastHitPose, reticleVisible, reticleY, groundY, gridY>>
sessVars == <<xrActive, xrSession, viewerSpace, refSpace, hitTestSource, pendViewer, pendHit>>
uiVars == <<signVisible, uiVisible, menuPrev, squeezeTimer>>
meshVars ==
  <<meshCollisionsEnabled, meshMap, meshFrameCounter, worldMeshes, nextBody,
    sceneDebug, removeReq>>
ctrlVars == <<leftController, rightController, leftGrip>>
collVars == <<colliders, sceneColliders, worldColliders>>
histVars ==
  <<streak, lockCount, lastDetected, meshCalls, frameThrew, frameLog, visuals>>
vars ==
  <<now, ballVars, floorVars, sessVars, uiVars, meshVars, ctrlVars, collVars, histVars>>

\* the state after the module has run, without the step log
Constructed ==
  /\ now = 0
  /\ nextId = 1
  /\ balls = <<>>
  /\ sceneBalls = {}
  /\ worldBalls = {}
  /\ collisionOff = {}
  /\ timers = {}
  /\ floorLocked = FALSE
  /\ lastHitPose = NoPose
  /\ reticleVisible = FALSE
  /\ reticleY = 0
  /\ groundY = 0
  /\ gridY = 0
  /\ xrActive = FALSE
  /\ xrSession = FALSE
  /\ viewerSpace = FALSE
  /\ refSpace = FALSE
  /\ hitTestSource = FALSE
  /\ pendViewer = 0
  /\ pendHit = 0
  /\ signVisible = FALSE
  /\ uiVisible = FALSE
  /\ menuPrev = FALSE
  /\ squeezeTimer = 0
  /\ meshCollisionsEnabled = TRUE
  /\ meshMap = [k \in Surfaces |-> NoRec]
  /\ meshFrameCounter = 0
  /\ worldMeshes = {}
  /\ nextBody = 1
  /\ sceneDebug = {}
  /\ removeReq = [b \in 1..MaxBodies |-> 0]
  /\ leftController = Null
  /\ rightController = Null
  /\ leftGrip = Null
  /\ colliders = <<>>
  /\ sceneColliders = {}
  /\ worldColliders = {}
  /\ streak = 0
  /\ lockCount = 0
  /\ lastDetected = NoDetection
  /\ meshCalls = 0
  /\ frameThrew = FALSE

Init == Constructed /\ frameLog = LogOff /\ visuals = SyncOff

\* the same state, with the step log kept
InitLogged == Constructed /\ frameLog = <<>> /\ visuals = [lag |-> {}, stale |-> {}]

(***************************************************************************)
(* Projectiles (part_002:252-312, main.js:201-255).  A projectile store is *)
(* the record of the five collections spawnBall and removeBall touch.      *)
(***************************************************************************)
StoreNow ==
  [balls |-> balls, scene |-> sceneBalls, world |-> worldBalls,
   off |-> collisionOff, timers |-> timers]

\* Array.prototype.indexOf, 1-based; 0 stands for -1
indexOf(seq, item) ==
  IF \E i \in 1..Len(seq) : seq[i] = item
  THEN CHOOSE i \in 1..Len(seq) :
         seq[i] = item /\ \A j \in 1..(i - 1) : seq[j] # item
  ELSE 0

\* Array.prototype.splice(i, 1), 1-based
splice1(seq, i) == SubSeq(seq, 1, i - 1) \o SubSeq(seq, i + 1, Len(seq))

\* mutant of removeBall: the body stays in the world
removeBall_keepsBody(st, item) ==
  LET i == indexOf(st.balls, item) IN
  [st EXCEPT !.scene = @ \ {item.id},
             !.balls = IF i # 0 THEN splice1(@, i) ELSE @]

\* mutant of removeBall: splices the entry behind the one found
removeBall_offByOne(st, item) ==
  LET i == indexOf(st.balls, item)
      k == IF i # 0 /\ i < Len(st.balls) THEN i + 1 ELSE i IN
  [st EXCEPT !.scene = @ \ {item.id},
             !.world = @ \ {item.id},
             !.balls = IF k # 0 THEN splice1(@, k) ELSE @]

\* mutant of removeBall: the entry is not spliced out of the list
removeBall_noSplice(st, item) ==
  [st EXCEPT !.scene = @ \ {item.id},
             !.world = @ \ {item.id}]

\* part_002:294-299
removeBall(st, item) ==
  LET i == indexOf(st.balls, item) IN
  [st EXCEPT !.scene = @ \ {item.id},
             !.world = @ \ {item.id},
             !.balls = IF i # 0 THEN splice1(@, i) ELSE @]

\* what spawnBall does after the capacity check (part_002:267-291)
addBall(st, id, t) ==
  [st EXCEPT !.scene = @ \cup {id},
             !.off = @ \cup {id},
             !.timers = @ \cup {[id |-> id, due |-> t + BALL_NO_COLLISION_MS]},
             !.world = @ \cup {id},
             !.balls = Append(@, [id |-> id, bornAt |-> t])]

\* mutant of spawnBall: capacity test > instead of >=
spawnBall_lateEvict(st, id, t) ==
  addBall(IF Len(st.balls) > BALL_LIMIT THEN removeBall(st, st.balls[1]) ELSE st, id, t)

\* mutant of spawnBall: evicts the newest entry instead of the oldest
spawnBall_evictNewest(st, id, t) ==
  addBall(IF Len(st.balls) >= BALL_LIMIT
          THEN removeBall(st, st.balls[Len(st.balls)]) ELSE st, id, t)

\* part_002:264-292; id is the identity of the new mesh and body, t is
\* performance.now()
spawnBall(st, id, t) ==
  addBall(IF Len(st.balls) >= BALL_LIMIT THEN removeBall(st, st.balls[1]) ELSE st, id, t)

\* part_002:650-652: for (i = balls.length - 1; i >= 0; i--), from 1-based i down
\* to 1; cur is the store as the iteration finds it
RECURSIVE sweepFrom(_, _, _)
sweepFrom(st, i, t) ==
  IF i < 1 THEN st
  ELSE CHOOSE next \in {sweepFrom(IF t - cur.balls[i].bornAt > BALL_LIFETIME
                                  THEN removeBall(cur, cur.balls[i]) ELSE cur,
                                  i - 1, t) : cur \in {st}} : TRUE

\* mutant of expirySweep: ascending loop, which skips the entry that moves
\* into a spliced slot
RECURSIVE sweepUp(_, _, _)
sweepUp(st, i, t) ==
  IF i > Len(st.balls) THEN st
  ELSE sweepUp(IF t - st.balls[i].bornAt > BALL_LIFETIME
               THEN removeBall(st, st.balls[i]) ELSE st, i + 1, t)

expirySweep_ascending(st, t) == sweepUp(st, 1, t)

\* mutant of expirySweep: the loop runs only while a session is active
expirySweep_inSession(st, t) ==
  IF xrActive THEN sweepFrom(st, Len(st.balls), t) ELSE st

\* part_002:648-652, the despawn loop of the animation-loop callback
expirySweep(st, t) == sweepFrom(st, Len(st.balls), t)

\* iterations after which the while loop of clearAllBalls is given up as
\* not terminating: one per entry suffices when each iteration removes one
ClearFuel == BALL_LIMIT + 1

\* part_002:301  while (balls.length) removeBall(balls[0]);
\* done is FALSE when the loop is still running after ClearFuel iterations
RECURSIVE clearLoop(_, _)
clearLoop(st, fuel) ==
  IF Len(st.balls) = 0 THEN [st |-> st, done |-> TRUE]
  ELSE IF fuel = 0 THEN [st |-> st, done |-> FALSE]
  ELSE clearLoop(removeBall(st, st.balls[1]), fuel - 1)

clearAllBalls(st) == clearLoop(st, ClearFuel)

\* the five projectile collections take the values of store st
SetStore(st) ==
  /\ balls' = st.balls
  /\ sceneBalls' = st.scene
  /\ worldBalls' = st.world
  /\ collisionOff' = st.off
  /\ timers' = st.timers

(***************************************************************************)
(* Floor anchor and manual surfaces (part_002:317-356).                    *)
(***************************************************************************)
\* mutant of lockFloorAtReticle: the ground body is not repositioned
lockFloorAtReticle_gridOnly ==
  /\ floorLocked' = TRUE
  /\ gridY' = reticleY
  /\ reticleVisible' = FALSE
  /\ signVisible' = FALSE
  /\ UNCHANGED <<groundY, lastHitPose, reticleY>>

\* part_002:317-328
lockFloorAtReticle ==
  /\ floorLocked' = TRUE
  /\ groundY' = reticleY
  /\ gridY' = reticleY
  /\ reticleVisible' = FALSE
  /\ signVisible' = FALSE
  /\ UNCHANGED <<lastHitPose, reticleY>>

\* mutant of addPlaneColliderAtHit: the body is not added to the world
addPlaneColliderAtHit_noBody(pose) ==
  LET id == Len(colliders) + 1 IN
  /\ sceneColliders' = sceneColliders \cup {id}
  /\ worldColliders' = worldColliders
  /\ colliders' = Append(colliders, [id |-> id, y |-> pose.y])

\* part_002:336-356; the new mesh and body are identified by their position
\* in the colliders list
addPlaneColliderAtHit(pose) ==
  LET id == Len(colliders) + 1 IN
  /\ sceneColliders' = sceneColliders \cup {id}
  /\ worldColliders' = worldColliders \cup {id}
  /\ colliders' = Append(colliders, [id |-> id, y |-> pose.y])

\* part_002:903-908
toggleMeshCollisions ==
  /\ meshCollisionsEnabled' = ~meshCollisionsEnabled
  /\ meshMap' = [k \in Surfaces |->
                   IF meshMap[k] = NoRec THEN NoRec
                   ELSE [meshMap[k] EXCEPT !.collisionResponse = ~meshCollisionsEnabled]]
  /\ UNCHANGED <<meshFrameCounter, worldMeshes, nextBody, sceneDebug, removeReq>>

(***************************************************************************)
(* Room-mesh tracker (part_002:361-525).  Lengths are integers in units of *)
(* 0.5 m.  A trimesh body is identified by the ordinal of its creation; a  *)
(* debug wireframe by the body it was built with, 0 standing for null.     *)
(***************************************************************************)
\* part_002:13
ENABLE_MESH_DEBUG == FALSE

\* part_002:22
ACCEPT_SEMANTICS == {"floor", "wall", "ceiling", "vertical", "vertical_surface", "table"}

\* String.prototype.toLowerCase on the labels the model feeds in
toLowerCase(lbl) == IF lbl = "WALL" THEN "wall" ELSE lbl

\* part_002:376-381; an absent semanticLabel is the empty string
semanticsAccepted(xrmesh) ==
  LET lbl == toLowerCase(xrmesh.semanticLabel) IN
  IF lbl = "" THEN TRUE ELSE lbl \in ACCEPT_SEMANTICS

\* Math.sqrt, rounded down to an integer
sqrt(n) == CHOOSE r \in 0..n : r * r <= n /\ n < (r + 1) * (r + 1)

Max(S) == IF S = {} THEN 0 ELSE CHOOSE m \in S : \A x \in S : x <= m

\* part_002:365-374; vertices is the flat coordinate array.  A trailing
\* incomplete triple reads undefined, its r2 is NaN and never the maximum.
estimateRadius(vertices) ==
  sqrt(Max({ vertices[3 * t + 1] * vertices[3 * t + 1]
             + vertices[3 * t + 2] * vertices[3 * t + 2]
             + vertices[3 * t + 3] * vertices[3 * t + 3]
             : t \in {u \in 0..Len(vertices) : 3 * u + 3 <= Len(vertices)} }))

\* the result of createTrimeshShapeCapped: null, or a Trimesh over indices
NullShape == [null |-> TRUE, indices |-> <<>>]

\* Math.ceil(a / b) for a >= 0, b > 0
ceil(a, b) == (a + b - 1) \div b

\* part_002:505-508: for (t = 0; t < triCount; t += stride) tmp.push(...)
RECURSIVE subsample(_, _, _, _)
subsample(indicesTyped, t, triCount, stride) ==
  IF t >= triCount THEN <<>>
  ELSE <<indicesTyped[3 * t + 1], indicesTyped[3 * t + 2], indicesTyped[3 * t + 3]>>
       \o subsample(indicesTyped, t + stride, triCount, stride)

\* mutant of createTrimeshShapeCapped: the cap keeps the first
\* MAX_TRIANGLES_PER_MESH triangles
createTrimeshShapeCapped_truncate(xrmesh) ==
  LET triCount == Len(xrmesh.indices) \div 3
      indices == IF triCount > MAX_TRIANGLES_PER_MESH
                 THEN SubSeq(xrmesh.indices, 1, 3 * MAX_TRIANGLES_PER_MESH)
                 ELSE xrmesh.indices
  IN
  IF ~xrmesh.hasVertices \/ ~xrmesh.hasIndices THEN NullShape
  ELSE IF triCount = 0 THEN NullShape
  ELSE IF xrmesh.trimeshThrows THEN NullShape
  ELSE [null |-> FALSE, indices |-> indices]

\* part_002:495-516; trimeshThrows: the CANNON.Trimesh constructor throws
createTrimeshShapeCapped(xrmesh) ==
  LET triCount == Len(xrmesh.indices) \div 3
      stride == ceil(triCount, MAX_TRIANGLES_PER_MESH)
      indices == IF triCount > MAX_TRIANGLES_PER_MESH
                 THEN subsample(xrmesh.indices, 0, triCount, stride)
                 ELSE xrmesh.indices
  IN
  IF ~xrmesh.hasVertices \/ ~xrmesh.hasIndices THEN NullShape
  ELSE IF triCount = 0 THEN NullShape
  ELSE IF xrmesh.trimeshThrows THEN NullShape
  ELSE [null |-> FALSE, indices |-> indices]

\* the tracker's state as the operators below transform it; threw: an
\* exception has left handleDetectedMeshes
MeshNow ==
  [map |-> meshMap, world |-> worldMeshes, next |-> nextBody,
   counter |-> meshFrameCounter, debug |-> sceneDebug, req |-> removeReq,
   threw |-> FALSE]

\* mutant of removeBody: the call is counted, the body stays in the world
removeBody_keeps(ms, body) ==
  [ms EXCEPT !.req[body] = IF @ < 2 THEN @ + 1 ELSE @]

\* world.removeBody(body), as called at part_002:452 and 519
removeBody(ms, body) ==
  [ms EXCEPT !.world = @ \ {body},
             !.req[body] = IF @ < 2 THEN @ + 1 ELSE @]

\* mutant of removeMeshRecord: the record is dropped, its body stays in
\* the world
removeMeshRecord_leak(ms, meshKey) ==
  [ms EXCEPT !.debug = @ \ {ms.map[meshKey].debugMesh}, !.map[meshKey] = NoRec]

\* part_002:518-525 followed by meshMap.delete(meshKey)
removeMeshRecord(ms, meshKey) ==
  [removeBody(ms, ms.map[meshKey].body) EXCEPT
     !.debug = @ \ {ms.map[meshKey].debugMesh},
     !.map[meshKey] = NoRec]

\* part_002:422-441, 455-461: the record of a newly created body; shape is
\* the index buffer of the body's Trimesh
newRecord(ms, xrmesh, radius) ==
  [body |-> ms.next, lastChangedTime |-> xrmesh.lastChangedTime,
   shape |-> createTrimeshShapeCapped(xrmesh).indices,
   radius |-> radius, collisionResponse |-> meshCollisionsEnabled,
   debugMesh |-> IF ENABLE_MESH_DEBUG THEN ms.next ELSE 0]

\* part_002:427, 438, 460: world.addBody and scene.add of the new body
addMeshBody(ms) ==
  [ms EXCEPT !.world = @ \cup {ms.next},
             !.debug = IF ENABLE_MESH_DEBUG THEN @ \cup {ms.next} ELSE @,
             !.next = @ + 1]

\* mutant of tagChanged: a tag equal to the stored one also counts as a change
tagChanged_notStrict(rec, xrmesh) ==
  rec = NoRec \/ xrmesh.lastChangedTime >= rec.lastChangedTime

\* part_002:408: changed
tagChanged(rec, xrmesh) ==
  rec = NoRec \/ xrmesh.lastChangedTime > rec.lastChangedTime

\* part_002:399-483: the body of the loop for one detected mesh; acc carries
\* count and seen beside the tracker's state
meshVisit(acc, xrmesh) ==
  LET rec == acc.map[xrmesh.key]
      has == rec # NoRec
      changed == tagChanged(rec, xrmesh)
      radius == IF has THEN rec.radius ELSE estimateRadius(xrmesh.vertices)
      shape == createTrimeshShapeCapped(xrmesh)
      counted == [acc EXCEPT !.seen = @ \cup {xrmesh.key}, !.count = @ + 1]
      unbodied == removeBody(counted, rec.body)
  IN
  IF ~semanticsAccepted(xrmesh) THEN acc
  ELSE IF ~xrmesh.hasPose THEN acc
  \* part_002:412: estimateRadius reads vertices.length of a null buffer
  ELSE IF ~has /\ ~xrmesh.hasVertices THEN [acc EXCEPT !.threw = TRUE]
  ELSE IF xrmesh.dist - radius > MAX_MESH_DISTANCE THEN
    (IF has THEN removeMeshRecord(acc, xrmesh.key) ELSE acc)
  ELSE IF ~has THEN
    (IF shape.null THEN acc
     ELSE [addMeshBody(counted) EXCEPT
             !.map[xrmesh.key] = newRecord(acc, xrmesh, radius)])
  ELSE IF changed THEN
    (IF shape.null
     THEN [unbodied EXCEPT
             !.map[xrmesh.key].lastChangedTime = xrmesh.lastChangedTime]
     ELSE [addMeshBody(unbodied) EXCEPT
             !.debug = (@ \ {rec.debugMesh})
                       \cup (IF rec.debugMesh # 0 THEN {acc.next} ELSE {}),
             !.map[xrmesh.key] =
               [newRecord(acc, xrmesh, estimateRadius(xrmesh.vertices))
                  EXCEPT !.debugMesh = IF rec.debugMesh # 0 THEN acc.next ELSE 0]])
  ELSE counted

\* part_002:396-484: the loop over frame.detectedMeshes in iteration order;
\* cur is the accumulator as the iteration finds it
RECURSIVE meshLoop(_, _, _)
meshLoop(acc, meshes, i) ==
  CHOOSE next \in
    {IF i > Len(meshes) \/ cur.threw THEN cur
     ELSE IF cur.count >= MAX_MESHES THEN cur
     ELSE meshLoop(meshVisit(cur, meshes[i]), meshes, i + 1) : cur \in {acc}} : TRUE

\* part_002:486-492; cur is the tracker as the iteration finds it
RECURSIVE removeUnseen(_, _, _)
removeUnseen(ms, seen, todo) ==
  IF todo = {} THEN ms
  ELSE LET k == CHOOSE x \in todo : TRUE IN
       CHOOSE next \in
         {removeUnseen(IF cur.map[k] # NoRec /\ k \notin seen
                       THEN removeMeshRecord(cur, k) ELSE cur,
                       seen, todo \ {k}) : cur \in {ms}} : TRUE

\* mutant of handleDetectedMeshes: the throttle lets the first call of every
\* DETECTED_MESH_UPDATE_RATE through
handleDetectedMeshes_fromFirst(ms, detected) ==
  LET counter == (ms.counter + 1) % DETECTED_MESH_UPDATE_RATE
      ms1 == [ms EXCEPT !.counter = counter]
      acc == meshLoop([map |-> ms1.map, world |-> ms1.world, next |-> ms1.next,
                       counter |-> counter, debug |-> ms1.debug, req |-> ms1.req,
                       threw |-> FALSE, count |-> 0, seen |-> {}],
                      detected.meshes, 1)
      out == IF acc.threw THEN acc ELSE removeUnseen(acc, acc.seen, Surfaces)
  IN
  IF counter # 1 THEN ms1
  ELSE IF ~detected.present THEN ms1
  ELSE [map |-> out.map, world |-> out.world, next |-> out.next,
        counter |-> counter, debug |-> out.debug, req |-> out.req,
        threw |-> out.threw]

\* part_002:383-493; detected is frame.detectedMeshes
handleDetectedMeshes(ms, detected) ==
  LET counter == (ms.counter + 1) % DETECTED_MESH_UPDATE_RATE
      ms1 == [ms EXCEPT !.counter = counter]
      acc == meshLoop([map |-> ms1.map, world |-> ms1.world, next |-> ms1.next,
                       counter |-> counter, debug |-> ms1.debug, req |-> ms1.req,
                       threw |-> FALSE, count |-> 0, seen |-> {}],
                      detected.meshes, 1)
      out == IF acc.threw THEN acc ELSE removeUnseen(acc, acc.seen, Surfaces)
  IN
  IF counter # 0 THEN ms1
  ELSE IF ~detected.present THEN ms1
  ELSE [map |-> out.map, world |-> out.world, next |-> out.next,
        counter |-> counter, debug |-> out.debug, req |-> out.req,
        threw |-> out.threw]

\* mutant of clearMeshMap: meshMap.clear() without the removeMeshRecord loop
clearMeshMap_mapOnly(ms) == [ms EXCEPT !.map = [k \in Surfaces |-> NoRec]]

\* part_002:635-636
clearMeshMap(ms) == removeUnseen(ms, {}, Surfaces)

SetMeshes(ms) ==
  /\ meshMap' = ms.map
  /\ worldMeshes' = ms.world
  /\ nextBody' = ms.next
  /\ meshFrameCounter' = ms.counter
  /\ sceneDebug' = ms.debug
  /\ removeReq' = ms.req

(***************************************************************************)
(* Interaction router (part_002:232-247, 303-312, 530-557).                *)
(***************************************************************************)
UiObjects == {"none", "clearBtnFront", "meshBtnFront"}

\* part_002:530-557: the object the controller's ray hits first, or "none";
\* FALSE/"" when no button is pressed
tryPressUIButton(uiHit) ==
  IF ~xrActive \/ ~uiVisible THEN "none" ELSE uiHit

\* mutant of selectBranch: either hand's trigger sets the floor (the guard of
\* main.js:171)
selectBranch_anyHand(target, uiHit) ==
  IF ~xrActive THEN "inactive"
  ELSE IF tryPressUIButton(uiHit) = "clearBtnFront" THEN "ui-clear"
  ELSE IF tryPressUIButton(uiHit) = "meshBtnFront" THEN "ui-toggle"
  ELSE IF ~floorLocked /\ reticleVisible THEN "lock"
  ELSE IF target = rightController /\ lastHitPose # NoPose THEN "place"
  ELSE IF floorLocked /\ target = leftController
       THEN (IF leftGrip = Null THEN "nogrip" ELSE "fire")
  ELSE "none"

\* the branch onSelectStart takes (part_002:232-247), fireFromLeft's early
\* return included (part_002:304)
selectBranch(target, uiHit) ==
  IF ~xrActive THEN "inactive"
  ELSE IF tryPressUIButton(uiHit) = "clearBtnFront" THEN "ui-clear"
  ELSE IF tryPressUIButton(uiHit) = "meshBtnFront" THEN "ui-toggle"
  ELSE IF ~floorLocked /\ target = leftController /\ reticleVisible THEN "lock"
  ELSE IF target = rightController /\ lastHitPose # NoPose THEN "place"
  ELSE IF floorLocked /\ target = leftController
       THEN (IF leftGrip = Null THEN "nogrip" ELSE "fire")
  ELSE "none"

\* the effect of the branch taken, on everything but the history variables
selectEffect(br) ==
  CASE br = "ui-clear" ->
         /\ SetStore(clearAllBalls(StoreNow).st)
         /\ UNCHANGED <<nextId, floorVars, signVisible, meshVars, collVars>>
    [] br = "ui-toggle" ->
         /\ toggleMeshCollisions
         /\ UNCHANGED <<ballVars, floorVars, signVisible, collVars>>
    [] br = "lock" ->
         /\ lockFloorAtReticle
         /\ UNCHANGED <<ballVars, meshVars, collVars>>
    [] br = "place" ->
         /\ Len(colliders) < MaxColliders
         /\ addPlaneColliderAtHit(lastHitPose)
         /\ UNCHANGED <<ballVars, floorVars, signVisible, meshVars>>
    [] br = "fire" ->
         /\ nextId <= MaxSpawn
         /\ SetStore(spawnBall(StoreNow, nextId, now))
         /\ nextId' = nextId + 1
         /\ UNCHANGED <<floorVars, signVisible, meshVars, collVars>>
    [] OTHER ->
         UNCHANGED <<ballVars, floorVars, signVisible, meshVars, collVars>>

\* mutant of onSelectStart: the left trigger sets the floor whenever a pose
\* is cached, locked or not
onSelectStart_relock(target, uiHit) ==
  IF xrActive /\ tryPressUIButton(uiHit) = "none"
     /\ target = leftController /\ lastHitPose # NoPose
  THEN /\ floorLocked' = TRUE
       /\ groundY' = lastHitPose.y
       /\ gridY' = lastHitPose.y
       /\ reticleVisible' = FALSE
       /\ signVisible' = FALSE
       /\ UNCHANGED <<lastHitPose, reticleY, ballVars, meshVars, collVars>>
  ELSE selectEffect(selectBranch(target, uiHit))

\* mutant of onSelectStart: no return after lockFloorAtReticle, so the
\* handler runs on into the firing branch
onSelectStart_fallthrough(target, uiHit) ==
  IF selectBranch(target, uiHit) = "lock" /\ leftGrip # Null /\ nextId <= MaxSpawn
  THEN /\ lockFloorAtReticle
       /\ SetStore(spawnBall(StoreNow, nextId, now))
       /\ nextId' = nextId + 1
       /\ UNCHANGED <<meshVars, collVars>>
  ELSE selectEffect(selectBranch(target, uiHit))

\* part_002:232-247
onSelectStart(target, uiHit) == selectEffect(selectBranch(target, uiHit))

\* projectiles that leave the balls list in this step
IdsOf(seq) == {seq[i].id : i \in 1..Len(seq)}
Removed == Cardinality(IdsOf(balls) \ IdsOf(balls'))

\* part_002:267-274: the mesh of a new projectile is created at the origin,
\* its body at the muzzle; removed projectiles drop out
visualsAfterSelect(listed) ==
  IF visuals = SyncOff THEN SyncOff
  ELSE [visuals EXCEPT
          !.lag = (@ \cup (IdsOf(listed) \ IdsOf(balls))) \cap IdsOf(listed)]

\* part_002:646: world.step may move every body
worldStep(lag) == lag \cup IdsOf(balls)

\* mutant of syncMeshesFromPhysics: the loop starts at the second entry
syncMeshesFromPhysics_skipFirst(lag, listed) ==
  lag \ IdsOf(IF listed = <<>> THEN <<>> ELSE Tail(listed))

\* part_002:256-262: every listed mesh takes position and quaternion of its
\* body; nothing is written to a body
syncMeshesFromPhysics(lag, listed) == lag \ IdsOf(listed)

\* the meshes that differ from their bodies when the animation-loop
\* callback ends (part_002:646-691): after the physics step, the despawn
\* loop and, unless an exception has left the callback, the sync; what
\* renderer.render (part_002:690) then draws of them
visualsAfterFrame(threw) ==
  IF visuals = SyncOff THEN SyncOff
  ELSE LET listed == expirySweep(StoreNow, now).balls
           kept == worldStep(visuals.lag) \cap IdsOf(listed)
           synced == syncMeshesFromPhysics(kept, listed)
       IN IF threw THEN [visuals EXCEPT !.lag = kept]
          ELSE [lag |-> synced, stale |-> synced \cap IdsOf(listed)]

\* the selectstart event of one controller, with the history it leaves
SelectStart(target, uiHit) ==
  LET br == selectBranch(target, uiHit) IN
  /\ onSelectStart(target, uiHit)
  /\ streak' = IF br = "ui-clear" THEN 0
               ELSE IF br = "fire" /\ streak <= BALL_LIMIT THEN streak + 1
               ELSE streak
  /\ lockCount' = IF ~floorLocked /\ floorLocked' THEN lockCount + 1 ELSE lockCount
  /\ UNCHANGED <<lastDetected, meshCalls, frameThrew, frameLog>>
  /\ visuals' = visualsAfterSelect(balls')
  /\ UNCHANGED <<now, sessVars, uiVisible, menuPrev, squeezeTimer, ctrlVars>>

(***************************************************************************)
(* Animation-loop callback (part_002:644-691).                             *)
(***************************************************************************)
\* what frame.getHitTestResults / results[0].getPose return
HitEmpty == [kind |-> "empty", y |-> 0]
HitNoPose == [kind |-> "nopose", y |-> 0]
HitResults == {HitEmpty, HitNoPose} \cup {[kind |-> "pose", y |-> h] : h \in Heights}

\* part_002:655: the frame argument is an XRFrame exactly while a session runs
hitTestRuns == xrActive /\ xrSession /\ hitTestSource /\ refSpace

\* mutant of hitTestStep: losing the surface also unlocks the floor
hitTestStep_unlocks(hit) ==
  IF ~hitTestRuns THEN UNCHANGED floorVars
  ELSE IF hit.kind = "pose" THEN
    /\ lastHitPose' = Pose(hit.y)
    /\ reticleVisible' = ~floorLocked
    /\ reticleY' = IF ~floorLocked THEN hit.y ELSE reticleY
    /\ UNCHANGED <<floorLocked, groundY, gridY>>
  ELSE IF hit.kind = "empty" THEN
    /\ lastHitPose' = NoPose
    /\ reticleVisible' = FALSE
    /\ floorLocked' = FALSE
    /\ UNCHANGED <<reticleY, groundY, gridY>>
  ELSE UNCHANGED floorVars

\* mutant of hitTestStep: the reticle keeps its old position when it was
\* already visible
hitTestStep_staleReticle(hit) ==
  IF ~hitTestRuns THEN UNCHANGED floorVars
  ELSE IF hit.kind = "pose" THEN
    /\ lastHitPose' = Pose(hit.y)
    /\ reticleVisible' = ~floorLocked
    /\ reticleY' = IF ~floorLocked /\ ~reticleVisible THEN hit.y ELSE reticleY
    /\ UNCHANGED <<floorLocked, groundY, gridY>>
  ELSE IF hit.kind = "empty" THEN
    /\ lastHitPose' = NoPose
    /\ reticleVisible' = FALSE
    /\ UNCHANGED <<floorLocked, reticleY, groundY, gridY>>
  ELSE UNCHANGED floorVars

\* part_002:654-670
hitTestStep(hit) ==
  IF ~hitTestRuns THEN UNCHANGED floorVars
  ELSE IF hit.kind = "pose" THEN
    /\ lastHitPose' = Pose(hit.y)
    /\ reticleVisible' = ~floorLocked
    /\ reticleY' = IF ~floorLocked THEN hit.y ELSE reticleY
    /\ UNCHANGED <<floorLocked, groundY, gridY>>
  ELSE IF hit.kind = "empty" THEN
    /\ lastHitPose' = NoPose
    /\ reticleVisible' = FALSE
    /\ UNCHANGED <<floorLocked, reticleY, groundY, gridY>>
  ELSE UNCHANGED floorVars

\* the left controller's gamepad as a frame sees it: userData.gamepad or null
\* (has), a pressed button among indices 4, 3, 2 (menu), and button 1
NoPad == [has |-> FALSE, menu |-> FALSE, squeeze |-> "absent"]
Pads ==
  {NoPad} \cup [has : {TRUE}, menu : BOOLEAN, squeeze : {"absent", "up", "down"}]

\* part_002:696-718
pollMenuToggle(pad) ==
  IF leftController = Null THEN UNCHANGED <<uiVisible, menuPrev, squeezeTimer>>
  ELSE
    LET pressed == pad.has /\ pad.menu
        ui1 == IF pressed /\ ~menuPrev THEN ~uiVisible ELSE uiVisible
        held == pad.has /\ pad.squeeze = "down"
        fired == held /\ squeezeTimer + 1 >= SQUEEZE_FRAMES IN
    /\ menuPrev' = pressed
    /\ squeezeTimer' = IF ~pad.has \/ pad.squeeze = "absent" THEN squeezeTimer
                       ELSE IF held /\ ~fired THEN squeezeTimer + 1
                       ELSE 0
    /\ uiVisible' = IF fired THEN ~ui1 ELSE ui1

\* the buffers of an XRMesh: vertices (flat coordinates) and indices
NullGeometry ==
  [vertices |-> <<>>, hasVertices |-> FALSE, indices |-> <<>>, hasIndices |-> FALSE]
\* one triangle, farthest vertex at distance r
OneTriangle(r) ==
  [vertices |-> <<r, 0, 0, 0, 0, 0, 0, 0, 0>>, hasVertices |-> TRUE,
   indices |-> <<0, 1, 2>>, hasIndices |-> TRUE]
\* fewer than three indices
NoTriangle(r) ==
  [vertices |-> <<0, r, 0>>, hasVertices |-> TRUE,
   indices |-> <<0, 0>>, hasIndices |-> TRUE]
\* one triangle more than the triangle cap
ManyTriangles(r) ==
  [vertices |-> <<0, 0, 0, 0, 0, r, 0, 0, 0>>, hasVertices |-> TRUE,
   indices |-> [j \in 1..(3 * (MAX_TRIANGLES_PER_MESH + 1)) |-> (j - 1) % 3],
   hasIndices |-> TRUE]
Geometries ==
  {NullGeometry, NoTriangle(8), OneTriangle(6), OneTriangle(8), ManyTriangles(8)}

\* semanticLabel values: absent, accepted, accepted in upper case, rejected
Labels == {"", "wall", "WALL", "sofa"}
\* distance of the mesh origin from the camera (part_002:411): near, far
Dists == {0, MAX_MESH_DISTANCE + 7}

\* the XRMesh objects a frame can report, with what frame.getPose returns
\* for them (hasPose, dist) and whether the Trimesh constructor throws
XRMeshSet(Tags, Lbls, PoseFlags, Ds, Geoms, Throws) ==
  { [key |-> k, lastChangedTime |-> t, semanticLabel |-> l, hasPose |-> hp,
     dist |-> d, vertices |-> g.vertices, hasVertices |-> g.hasVertices,
     indices |-> g.indices, hasIndices |-> g.hasIndices, trimeshThrows |-> th]
    : k \in Surfaces, t \in Tags, l \in Lbls, hp \in PoseFlags, d \in Ds,
      g \in Geoms, th \in Throws }
XRMeshes == XRMeshSet(1..MaxTag, Labels, BOOLEAN, Dists, Geometries, BOOLEAN)

\* the lists of at most n meshes of M with distinct keys
RECURSIVE MeshLists(_, _)
MeshLists(M, n) ==
  IF n = 0 THEN {<<>>}
  ELSE LET shorter == MeshLists(M, n - 1) IN
       shorter \cup
       UNION { { Append(l, m) : m \in {y \in M : \A i \in 1..(n - 1) : l[i].key # y.key} }
               : l \in {x \in shorter : Len(x) = n - 1} }

Detections(M) ==
  {NoDetection, NullDetection} \cup {Detected(l) : l \in MeshLists(M, MAX_MESHES + 1)}

\* part_002:673
meshesRun(detected) == xrActive /\ xrSession /\ detected.defined /\ refSpace

\* part_002:385-389: the call is made and passes the throttle and the null test
processed(detected) ==
  /\ meshesRun(detected)
  /\ (meshFrameCounter + 1) % DETECTED_MESH_UPDATE_RATE = 0
  /\ detected.present

\* the calls made once this frame's callback has run (part_002:673-674)
callsAfter(detected) ==
  IF meshesRun(detected) THEN (meshCalls + 1) % DETECTED_MESH_UPDATE_RATE
  ELSE meshCalls

\* part_002:672-675
meshStep(detected) ==
  IF meshesRun(detected) THEN handleDetectedMeshes(MeshNow, detected) ELSE MeshNow

\* mutant of frameSteps: the transform sync runs first
frameSteps_syncFirst(detected) ==
  <<"sync", "physics", "sweep">>
  \o (IF hitTestRuns THEN <<"hittest">> ELSE <<>>)
  \o (IF meshesRun(detected) THEN <<"meshes">> ELSE <<>>)
  \o (IF meshStep(detected).threw THEN <<>>
      ELSE (IF xrActive THEN <<"ui">> ELSE <<>>) \o <<"render">>)

\* part_002:644-691: the steps of one callback in the order they run;
\* an exception leaving handleDetectedMeshes ends the callback
frameSteps(detected) ==
  <<"physics", "sweep">>
  \o (IF hitTestRuns THEN <<"hittest">> ELSE <<>>)
  \o (IF meshesRun(detected) THEN <<"meshes">> ELSE <<>>)
  \o (IF meshStep(detected).threw THEN <<>>
      ELSE <<"sync">> \o (IF xrActive THEN <<"ui">> ELSE <<>>) \o <<"render">>)

\* part_002:644-691: physics step, despawn sweep, hit-test, room meshes,
\* physics-to-visual sync, UI, render.  An exception leaving
\* handleDetectedMeshes ends the callback there.
Frame(hit, pad, detected) ==
  /\ SetStore(expirySweep(StoreNow, now))
  /\ hitTestStep(hit)
  /\ meshStep(detected).next <= MaxBodies + 1
  /\ SetMeshes(meshStep(detected))
  /\ IF xrActive /\ ~meshStep(detected).threw THEN pollMenuToggle(pad)
     ELSE UNCHANGED <<uiVisible, menuPrev, squeezeTimer>>
  /\ streak' = IF Removed > 0 THEN 0 ELSE streak
  /\ UNCHANGED <<now, nextId, sessVars, signVisible, meshCollisionsEnabled,
                 ctrlVars, collVars, lockCount>>
  /\ lastDetected' = IF processed(detected) THEN detected ELSE NoDetection
  /\ meshCalls' = callsAfter(detected)
  /\ frameThrew' = meshStep(detected).threw
  /\ frameLog' = IF frameLog = LogOff THEN LogOff ELSE frameSteps(detected)
  /\ visuals' = visualsAfterFrame(meshStep(detected).threw)

\* the animation-loop callback with the inputs the state lets it read
FrameStep(Hits, PadSet, Dets) ==
  \E hit \in (IF hitTestRuns THEN Hits ELSE {HitEmpty}),
     pad \in (IF xrActive /\ leftController # Null THEN PadSet ELSE {NoPad}),
     detected \in (IF xrActive /\ xrSession /\ refSpace THEN Dets ELSE {NoDetection}) :
    Frame(hit, pad, detected)

(***************************************************************************)
(* Timer callback of spawnBall (part_002:285).                             *)
(***************************************************************************)
\* mutant of TimerFires: the callback runs and leaves collisionResponse as
\* it is
TimerFires_idle(tm) ==
  /\ tm \in timers
  /\ now >= tm.due
  /\ timers' = timers \ {tm}
  /\ UNCHANGED <<now, nextId, balls, sceneBalls, worldBalls, collisionOff, floorVars,
                 sessVars, uiVars, meshVars, ctrlVars, collVars, histVars>>

\* setTimeout(() => { body.collisionResponse = true; }, BALL_NO_COLLISION_MS)
TimerFires(tm) ==
  /\ tm \in timers
  /\ now >= tm.due
  /\ timers' = timers \ {tm}
  /\ collisionOff' = collisionOff \ {tm.id}
  /\ UNCHANGED <<now, nextId, balls, sceneBalls, worldBalls, floorVars, sessVars,
                 uiVars, meshVars, ctrlVars, collVars, streak, lockCount, lastDetected, meshCalls, frameThrew, frameLog,
                 visuals>>

(***************************************************************************)
(* Controllers (part_002:210-225).                                         *)
(***************************************************************************)
GripOf(c) == IF c = "controller0" THEN "controllerGrip0" ELSE "controllerGrip1"

\* part_002:210-223
onConnected(c, handedness) ==
  /\ leftController' = IF handedness = "left" THEN c ELSE leftController
  /\ leftGrip' = IF handedness = "left" THEN GripOf(c) ELSE leftGrip
  /\ rightController' = IF handedness = "right" THEN c ELSE rightController

Connected(c, handedness) ==
  /\ onConnected(c, handedness)
  /\ UNCHANGED <<now, ballVars, floorVars, sessVars, uiVars, meshVars, collVars,
                 streak, lockCount, lastDetected, meshCalls, frameThrew, frameLog,
                 visuals>>

(***************************************************************************)
(* Session events (part_002:605-639).                                      *)
(***************************************************************************)
\* part_002:605-614: the handler up to its first await
SessionStart ==
  /\ ~xrActive
  /\ pendViewer + pendHit < MaxPending
  /\ xrActive' = TRUE
  /\ signVisible' = TRUE
  /\ uiVisible' = FALSE
  /\ xrSession' = TRUE
  /\ refSpace' = TRUE
  /\ pendViewer' = pendViewer + 1
  /\ lockCount' = 0
  /\ UNCHANGED <<lastDetected, meshCalls, frameThrew, frameLog, visuals>>
  /\ UNCHANGED <<now, ballVars, floorVars, viewerSpace, hitTestSource, pendHit,
                 menuPrev, squeezeTimer, meshVars, ctrlVars, collVars, streak>>

\* part_002:614-624: requestReferenceSpace settles.  Reading
\* xrSession.requestHitTestSource of a null xrSession throws into the catch.
ViewerSettles(fulfilled, canHitTest) ==
  /\ pendViewer > 0
  /\ pendViewer' = pendViewer - 1
  /\ viewerSpace' = IF fulfilled THEN TRUE ELSE viewerSpace
  /\ pendHit' = IF fulfilled /\ xrSession /\ canHitTest THEN pendHit + 1 ELSE pendHit
  /\ UNCHANGED <<now, ballVars, floorVars, xrActive, xrSession, refSpace,
                 hitTestSource, uiVars, meshVars, ctrlVars, collVars, streak, lockCount, lastDetected, meshCalls, frameThrew, frameLog,
                 visuals>>

\* part_002:616-624: requestHitTestSource settles
HitSourceSettles(fulfilled) ==
  /\ pendHit > 0
  /\ pendHit' = pendHit - 1
  /\ hitTestSource' = IF fulfilled THEN TRUE ELSE hitTestSource
  /\ UNCHANGED <<now, ballVars, floorVars, xrActive, xrSession, refSpace,
                 viewerSpace, pendViewer, uiVars, meshVars, ctrlVars, collVars,
                 streak, lockCount, lastDetected, meshCalls, frameThrew, frameLog,
                 visuals>>

\* part_002:627-639
SessionEnd ==
  /\ xrActive
  /\ xrActive' = FALSE
  /\ signVisible' = FALSE
  /\ uiVisible' = FALSE
  /\ reticleVisible' = FALSE
  /\ xrSession' = FALSE
  /\ viewerSpace' = FALSE
  /\ refSpace' = FALSE
  /\ hitTestSource' = FALSE
  /\ SetMeshes(clearMeshMap(MeshNow))
  /\ UNCHANGED <<now, ballVars, floorLocked, lastHitPose, reticleY, groundY, gridY,
                 pendViewer, pendHit, menuPrev, squeezeTimer, meshCollisionsEnabled,
                 ctrlVars, collVars, streak, lockCount, lastDetected, meshCalls, frameThrew, frameLog,
                 visuals>>

(***************************************************************************)
(* The clock and the specification.                                        *)
(***************************************************************************)
\* performance.now() advances between handlers
Tick ==
  /\ now < MaxTime
  /\ now' = now + 1
  /\ UNCHANGED <<ballVars, floorVars, sessVars, uiVars, meshVars, ctrlVars, collVars,
                 streak, lockCount, lastDetected, meshCalls, frameThrew, frameLog,
                 visuals>>

Next ==
  \/ Tick
  \/ FrameStep(HitResults, Pads, Detections(XRMeshes))
  \/ \E c \in Controllers, u \in UiObjects : SelectStart(c, u)
  \/ \E tm \in timers : TimerFires(tm)
  \/ \E c \in Controllers, h \in {"left", "right", "none"} : Connected(c, h)
  \/ SessionStart
  \/ \E f \in BOOLEAN, cap \in BOOLEAN : ViewerSettles(f, cap)
  \/ \E f \in BOOLEAN : HitSourceSettles(f)
  \/ SessionEnd

Spec == Init /\ [][Next]_vars

(***************************************************************************)
(* Environments.  The full environment of Spec is too large to explore;    *)
(* each of the specifications below keeps every handler and narrows the    *)
(* inputs that do not bear on the component under study.                   *)
(***************************************************************************)
\* a session that ends after its hit-test negotiation has settled
QuietSessionEnd == pendViewer + pendHit = 0 /\ SessionEnd

\* Projectile manager: one floor height, no squeeze button, only the
\* clear-all button on the panel, controller0 as the left hand, no right
\* hand, a device without mesh detection
NextBalls ==
  \/ Tick
  \/ FrameStep({HitEmpty, [kind |-> "pose", y |-> 1]},
               {NoPad, [has |-> TRUE, menu |-> TRUE, squeeze |-> "absent"]},
               {NoDetection})
  \/ \E c \in Controllers, u \in {"none", "clearBtnFront"} : SelectStart(c, u)
  \/ \E tm \in timers : TimerFires(tm)
  \/ \E c \in {"controller0"} : Connected(c, "left")
  \/ SessionStart
  \/ \E f \in BOOLEAN, cap \in BOOLEAN : ViewerSettles(f, cap)
  \/ \E f \in BOOLEAN : HitSourceSettles(f)
  \/ QuietSessionEnd

SpecBalls == Init /\ [][NextBalls]_vars

\* Floor anchor and interaction router: every hit-test outcome, both hands
\* on either controller, both panel buttons, a device without mesh
\* detection; the clock stands still
NextFloor ==
  \/ FrameStep(HitResults, {NoPad, [has |-> TRUE, menu |-> TRUE, squeeze |-> "absent"]},
               {NoDetection})
  \/ \E c \in Controllers, u \in UiObjects : SelectStart(c, u)
  \/ \E c \in Controllers, h \in {"left", "right"} : Connected(c, h)
  \/ SessionStart
  \/ \E f \in BOOLEAN, cap \in BOOLEAN : ViewerSettles(f, cap)
  \/ \E f \in BOOLEAN : HitSourceSettles(f)
  \/ QuietSessionEnd

SpecFloor == Init /\ [][NextFloor]_vars

\* Room-mesh tracker.  Two surfaces are reported, in any order, without
\* labels and with a pose.  The first comes with every modification tag:
\* near, with null buffers, buffers too short for a triangle, or one triangle
\* of radius 6 or 7; or far, with the first tag and one triangle of radius 6
\* or 7.  The second is the rest of the batch: near, with one tag, one
\* triangle or null buffers.  No hit-test capability, no panel, no
\* controller; the clock stands still.
MeshGeometries == {NullGeometry, NoTriangle(7), OneTriangle(6), OneTriangle(7)}
MeshInputs ==
  {m \in XRMeshSet(1..MaxTag, {""}, {TRUE}, Dists, MeshGeometries, {FALSE}) :
     m.key = 1 /\ (m.dist = 0 \/ (Len(m.indices) = 3 /\ m.lastChangedTime = 1))}
  \cup {m \in XRMeshSet({1}, {""}, {TRUE}, {0}, {NullGeometry, OneTriangle(6)}, {FALSE}) :
          m.key = 2}
MeshDetections ==
  {NoDetection, NullDetection} \cup {Detected(l) : l \in MeshLists(MeshInputs, 2)}

NextMesh ==
  \/ FrameStep({HitEmpty}, {NoPad}, MeshDetections)
  \/ SessionStart
  \/ \E f \in BOOLEAN : ViewerSettles(f, FALSE)
  \/ QuietSessionEnd

SpecMesh == Init /\ [][NextMesh]_vars

\* Count cap of the room-mesh tracker.  Every surface is reported, in lists
\* of up to one more than the cap, near, with one tag and one triangle; the
\* last surface also with null buffers.  No hit-test capability, no panel;
\* the clock stands still.
CapInputs ==
  {m \in XRMeshSet({1}, {""}, {TRUE}, {0}, {NullGeometry, OneTriangle(6)}, {FALSE}) :
     m.hasVertices \/ m.key = MAX_MESHES + 2}
CapDetections == Detections(CapInputs)

NextCap ==
  \/ FrameStep({HitEmpty}, {NoPad}, CapDetections)
  \/ \E c \in {"controller0"} : SelectStart(c, "none")
  \/ \E c \in {"controller0"} : Connected(c, "left")
  \/ SessionStart
  \/ \E f \in BOOLEAN : ViewerSettles(f, FALSE)
  \/ QuietSessionEnd

SpecCap == Init /\ [][NextCap]_vars

\* Triangle cap of the room-mesh tracker.  One surface is reported, near,
\* without label, with a pose and one modification tag; its index buffer
\* has every length up to one index more than MaxTriCount triangles, and
\* entry j holds the number j - 1, so that every position is told apart.
MaxTriCount == 2 * MAX_TRIANGLES_PER_MESH + 1
IndexBuffer(len) ==
  [vertices |-> <<6, 0, 0>>, hasVertices |-> TRUE,
   indices |-> [j \in 1..len |-> j - 1], hasIndices |-> TRUE]
TriGeometries == {IndexBuffer(len) : len \in 0..(3 * MaxTriCount + 1)}
TriInputs ==
  {m \in XRMeshSet({1}, {""}, {TRUE}, {0}, TriGeometries, {FALSE}) : m.key = 1}
TriDetections == {NoDetection, NullDetection} \cup {Detected(<<m>>) : m \in TriInputs}

NextTri ==
  \/ FrameStep({HitEmpty}, {NoPad}, TriDetections)
  \/ SessionStart
  \/ \E f \in BOOLEAN : ViewerSettles(f, FALSE)
  \/ QuietSessionEnd

SpecTri == Init /\ [][NextTri]_vars

\* Frame callback with its step log kept.  One floor height, a device with
\* mesh detection that reports nothing, null, or one new surface with a
\* triangle or with null buffers; controller0 as the left hand, no panel;
\* the clock stands still.
OrderDetections ==
  {NoDetection}
  \cup {Detected(<<m>>) :
          m \in {x \in XRMeshSet({1}, {""}, {TRUE}, {0}, {NullGeometry, OneTriangle(6)}, {FALSE}) :
                   x.key = 1}}

NextOrder ==
  \/ FrameStep({HitEmpty, [kind |-> "pose", y |-> 1]}, {NoPad}, OrderDetections)
  \/ \E c \in {"controller0"} : SelectStart(c, "none")
  \/ \E c \in {"controller0"} : Connected(c, "left")
  \/ SessionStart
  \/ ViewerSettles(TRUE, TRUE)
  \/ HitSourceSettles(TRUE)
  \/ QuietSessionEnd

SpecOrder == InitLogged /\ [][NextOrder]_vars

\* Placed surfaces.  One floor height, controller0 as the left hand and
\* controller1 as the right, the panel with its clear-all button, a device
\* with mesh detection that reports nothing or one new surface with a
\* triangle; the clock stands still.
PlaceDetections ==
  {NoDetection}
  \cup {Detected(<<m>>) :
          m \in {x \in XRMeshSet({1}, {""}, {TRUE}, {0}, {OneTriangle(6)}, {FALSE}) :
                   x.key = 1}}

NextPlace ==
  \/ FrameStep({HitEmpty, [kind |-> "pose", y |-> 1]},
               {NoPad, [has |-> TRUE, menu |-> TRUE, squeeze |-> "absent"]},
               PlaceDetections)
  \/ \E c \in Controllers, u \in {"none", "clearBtnFront"} : SelectStart(c, u)
  \/ Connected("controller0", "left")
  \/ Connected("controller1", "right")
  \/ SessionStart
  \/ ViewerSettles(TRUE, TRUE)
  \/ HitSourceSettles(TRUE)
  \/ QuietSessionEnd

SpecPlace == Init /\ [][NextPlace]_vars

\* Session lifecycle.  The session may end while the sessionstart handler is
\* suspended at either await; each request is fulfilled or rejected.  One
\* floor height, controller0 as the left hand, no panel, a device without
\* mesh detection; the clock stands still.
NextSession ==
  \/ FrameStep({HitEmpty, [kind |-> "pose", y |-> 1]}, {NoPad}, {NoDetection})
  \/ \E c \in {"controller0"} : SelectStart(c, "none")
  \/ \E c \in {"controller0"} : Connected(c, "left")
  \/ SessionStart
  \/ \E f \in BOOLEAN, cap \in BOOLEAN : ViewerSettles(f, cap)
  \/ \E f \in BOOLEAN : HitSourceSettles(f)
  \/ SessionEnd

SpecSession == Init /\ [][NextSession]_vars

\* Projectile lifecycle under fair scheduling.  The animation loop keeps
\* calling its callback, the clock keeps advancing up to MaxTime, and a due
\* timer callback is run.  Sessions start before the first projectile is
\* fired and may end at any time after; every hit-test finds the floor at
\* one height; controller0 is the left hand; no panel, a device without
\* mesh detection.
LiveFrame == FrameStep({[kind |-> "pose", y |-> 1]}, {NoPad}, {NoDetection})
LiveTimer == \E tm \in timers : TimerFires(tm)

NextLive ==
  \/ Tick
  \/ LiveFrame
  \/ \E c \in {"controller0"} : SelectStart(c, "none")
  \/ LiveTimer
  \/ \E c \in {"controller0"} : Connected(c, "left")
  \/ nextId = 1 /\ SessionStart
  \/ ViewerSettles(TRUE, TRUE)
  \/ HitSourceSettles(TRUE)
  \/ QuietSessionEnd

\* the clock advances and the animation loop keeps calling its callback
SpecExpire == Init /\ [][NextLive]_vars /\ WF_vars(Tick) /\ WF_vars(LiveFrame)

\* the clock advances and due timer callbacks run
SpecWarm == Init /\ [][NextLive]_vars /\ WF_vars(Tick) /\ WF_vars(LiveTimer)

(***************************************************************************)
(* src/src/main.js, the variant without session flag, UI panel and warm-up *)
(* timer.  It shares the state of the model; xrActive, the UI variables,   *)
(* collisionOff and timers keep their initial values in it.                *)
(***************************************************************************)
\* main.js:216-236: no collisionResponse flag and no timer
main_spawnBall(st, id, t) ==
  LET room == IF Len(st.balls) >= BALL_LIMIT THEN removeBall(st, st.balls[1]) ELSE st IN
  [room EXCEPT !.scene = @ \cup {id},
               !.world = @ \cup {id},
               !.balls = Append(@, [id |-> id, bornAt |-> t])]

\* main.js:259-265: the reticle stays as it is
main_lockFloorAtReticle ==
  /\ floorLocked' = TRUE
  /\ groundY' = reticleY
  /\ gridY' = reticleY
  /\ UNCHANGED <<lastHitPose, reticleVisible, reticleY>>

\* the branch onSelectStart takes (main.js:170-174), fireFromLeft's early
\* return included (main.js:247)
main_selectBranch(target) ==
  IF ~floorLocked /\ reticleVisible THEN "lock"
  ELSE IF target = rightController /\ reticleVisible /\ lastHitPose # NoPose THEN "place"
  ELSE IF target = leftController
       THEN (IF leftGrip = Null THEN "nogrip" ELSE "fire")
  ELSE "none"

\* main.js:170-174
main_onSelectStart(target) ==
  LET br == main_selectBranch(target) IN
  CASE br = "lock" ->
         /\ main_lockFloorAtReticle
         /\ UNCHANGED <<ballVars, collVars>>
    [] br = "place" ->
         /\ Len(colliders) < MaxColliders
         /\ addPlaneColliderAtHit(lastHitPose)
         /\ UNCHANGED <<ballVars, floorVars>>
    [] br = "fire" ->
         /\ nextId <= MaxSpawn
         /\ SetStore(main_spawnBall(StoreNow, nextId, now))
         /\ nextId' = nextId + 1
         /\ UNCHANGED <<floorVars, collVars>>
    [] OTHER ->
         UNCHANGED <<ballVars, floorVars, collVars>>

\* the selectstart event of one controller (main.js:175-176)
MainSelectStart(target) ==
  /\ main_onSelectStart(target)
  /\ streak' = IF main_selectBranch(target) = "fire" /\ streak <= BALL_LIMIT
               THEN streak + 1 ELSE streak
  /\ lockCount' = IF ~floorLocked /\ floorLocked' THEN lockCount + 1 ELSE lockCount
  /\ UNCHANGED <<now, sessVars, uiVars, meshVars, ctrlVars,
                 lastDetected, meshCalls, frameThrew, frameLog>>
  /\ visuals' = visualsAfterSelect(balls')

\* main.js:477: frame && hitTestSource && refSpace; the loop gets a frame
\* only while a session runs
main_hitTestRuns == xrSession /\ hitTestSource /\ refSpace

\* main.js:477-490
main_hitTestStep(hit) ==
  IF ~main_hitTestRuns THEN UNCHANGED floorVars
  ELSE IF hit.kind = "pose" THEN
    /\ lastHitPose' = Pose(hit.y)
    /\ reticleVisible' = ~floorLocked
    /\ reticleY' = hit.y
    /\ UNCHANGED <<floorLocked, groundY, gridY>>
  ELSE
    /\ lastHitPose' = NoPose
    /\ reticleVisible' = FALSE
    /\ UNCHANGED <<floorLocked, reticleY, groundY, gridY>>

\* the animation-loop callback (main.js:466-501) on a device whose frames
\* carry no detectedMeshes, so that main.js:493-495 is skipped
MainFrame(hit) ==
  /\ SetStore(expirySweep(StoreNow, now))
  /\ main_hitTestStep(hit)
  /\ streak' = IF Removed > 0 THEN 0 ELSE streak
  /\ lastDetected' = NoDetection
  /\ frameThrew' = FALSE /\ meshCalls' = meshCalls
  /\ UNCHANGED <<now, nextId, sessVars, uiVars, meshVars, ctrlVars, collVars,
                 lockCount, frameLog>>
  /\ visuals' = visualsAfterFrame(FALSE)

\* main.js:65-69, up to the first await
MainSessionStart ==
  /\ ~xrSession
  /\ pendViewer + pendHit < MaxPending
  /\ xrSession' = TRUE
  /\ refSpace' = TRUE
  /\ pendViewer' = pendViewer + 1
  /\ lockCount' = 0
  /\ UNCHANGED <<now, ballVars, floorVars, xrActive, viewerSpace, hitTestSource,
                 pendHit, uiVars, meshVars, ctrlVars, collVars, streak,
                 lastDetected, meshCalls, frameThrew, frameLog, visuals>>

\* main.js:82-89
MainSessionEnd ==
  /\ xrSession
  /\ xrSession' = FALSE
  /\ viewerSpace' = FALSE
  /\ refSpace' = FALSE
  /\ hitTestSource' = FALSE
  /\ reticleVisible' = FALSE
  /\ SetMeshes(clearMeshMap(MeshNow))
  /\ UNCHANGED <<now, ballVars, floorLocked, lastHitPose, reticleY, groundY, gridY,
                 xrActive, pendViewer, pendHit, uiVars, meshCollisionsEnabled,
                 ctrlVars, collVars, streak, lockCount, lastDetected, meshCalls, frameThrew,
                 frameLog, visuals>>

\* main.js with both controllers, hit tests that find a surface or none,
\* and sessions that start and end
NextMain ==
  \/ \E hit \in (IF main_hitTestRuns THEN {HitEmpty, [kind |-> "pose", y |-> 1]}
                  ELSE {HitEmpty}) : MainFrame(hit)
  \/ \E c \in Controllers : MainSelectStart(c)
  \/ Connected("controller0", "left")
  \/ Connected("controller1", "right")
  \/ Tick
  \/ MainSessionStart
  \/ ViewerSettles(TRUE, TRUE)
  \/ HitSourceSettles(TRUE)
  \/ MainSessionEnd

SpecMain == Init /\ [][NextMain]_vars

(***************************************************************************)
(* src/unnamed/part_001, first snapshot (lines 1-788): one UI button, shown *)
(* from sessionstart on.  spawnBall, removeBall, clearAllBalls,            *)
(* lockFloorAtReticle, addPlaneColliderAtHit, onConnected, the sessionend  *)
(* handler and the statements of the animation-loop callback are those of  *)
(* part_002, so their definitions are shared.                              *)
(***************************************************************************)
\* part_001:467-485: no test of the button's visibility
p1_tryPressUIButton(uiHit) ==
  IF ~xrActive THEN "none" ELSE uiHit

\* the branch onSelectStart takes (part_001:200-221), fireFromLeft's early
\* return included (part_001:284)
p1_selectBranch(target, uiHit) ==
  IF ~xrActive THEN "inactive"
  ELSE IF p1_tryPressUIButton(uiHit) = "buttonFront" THEN "ui-clear"
  ELSE IF ~floorLocked /\ target = leftController /\ reticleVisible THEN "lock"
  ELSE IF target = rightController /\ lastHitPose # NoPose THEN "place"
  ELSE IF floorLocked /\ target = leftController
       THEN (IF leftGrip = Null THEN "nogrip" ELSE "fire")
  ELSE "none"

\* part_001:200-221
p1_onSelectStart(target, uiHit) == selectEffect(p1_selectBranch(target, uiHit))

\* the selectstart event of one controller (part_001:197-198)
P1SelectStart(target, uiHit) ==
  LET br == p1_selectBranch(target, uiHit) IN
  /\ p1_onSelectStart(target, uiHit)
  /\ streak' = IF br = "ui-clear" THEN 0
               ELSE IF br = "fire" /\ streak <= BALL_LIMIT THEN streak + 1
               ELSE streak
  /\ lockCount' = IF ~floorLocked /\ floorLocked' THEN lockCount + 1 ELSE lockCount
  /\ UNCHANGED <<lastDetected, meshCalls, frameThrew, frameLog>>
  /\ visuals' = visualsAfterSelect(balls')
  /\ UNCHANGED <<now, sessVars, uiVisible, menuPrev, squeezeTimer, ctrlVars>>

\* part_001:641-648, up to the first await
P1SessionStart ==
  /\ ~xrActive
  /\ pendViewer + pendHit < MaxPending
  /\ xrActive' = TRUE
  /\ signVisible' = TRUE
  /\ uiVisible' = TRUE
  /\ xrSession' = TRUE
  /\ refSpace' = TRUE
  /\ pendViewer' = pendViewer + 1
  /\ lockCount' = 0
  /\ UNCHANGED <<lastDetected, meshCalls, frameThrew, frameLog, visuals>>
  /\ UNCHANGED <<now, ballVars, floorVars, viewerSpace, hitTestSource, pendHit,
                 menuPrev, squeezeTimer, meshVars, ctrlVars, collVars, streak>>

\* part_001:681-727 on a device whose frames carry no detectedMeshes
P1Frame(hit, pad) == Frame(hit, pad, NoDetection)

\* part_001 with sessions that get a hit-test source and sessions that do
\* not (no requestHitTestSource, or a request that is rejected)
NextP1 ==
  \/ \E hit \in (IF hitTestRuns THEN {HitEmpty, [kind |-> "pose", y |-> 1]}
                  ELSE {HitEmpty}) : P1Frame(hit, NoPad)
  \/ \E c \in Controllers, u \in {"none", "buttonFront"} : P1SelectStart(c, u)
  \/ Connected("controller0", "left")
  \/ Connected("controller1", "right")
  \/ P1SessionStart
  \/ \E f \in BOOLEAN, cap \in BOOLEAN : ViewerSettles(f, cap)
  \/ \E f \in BOOLEAN : HitSourceSettles(f)
  \/ QuietSessionEnd
  \/ Tick
  \/ LiveTimer

SpecP1 == Init /\ [][NextP1]_vars

(***************************************************************************)
(* Properties.                                                             *)
(***************************************************************************)
\* a step of the selectstart handler, and of the animation-loop callback on
\* a device without mesh detection (what either leaves unchanged is tested
\* first)
IsSelect ==
  /\ UNCHANGED <<now, sessVars, ctrlVars>>
  /\ \E c \in Controllers, u \in UiObjects : SelectStart(c, u)
IsFrame ==
  /\ UNCHANGED <<now, nextId, timers, collisionOff, sessVars, ctrlVars, collVars>>
  /\ UNCHANGED meshVars
  /\ FrameStep(HitResults, Pads, {NoDetection})

\* a step in which the floor goes from unset to locked
FloorLocks == ~floorLocked /\ floorLocked'

\* C1: after any sequence of spawns, frames and clear-alls the balls list
\* never holds more than BALL_LIMIT entries.
C1_CapNeverExceeded == Len(balls) <= BALL_LIMIT

\* the list is full and the last spawn of an unbroken run hit the cap
C1_Witness == streak > BALL_LIMIT /\ Len(balls) = BALL_LIMIT

\* C2: a spawn into a full list removes exactly one projectile, the
\* earliest-created one still listed, and appends the new one; a spawn into
\* a list that is not full removes nothing.
C2_FifoEviction ==
  [][nextId' # nextId =>
       LET new == [id |-> nextId, bornAt |-> now] IN
       IF Len(balls) >= BALL_LIMIT
       THEN /\ \A i \in 1..Len(balls) :
                 balls[1].id <= balls[i].id /\ balls[1].bornAt <= balls[i].bornAt
            /\ IdsOf(balls) \ IdsOf(balls') = {balls[1].id}
            /\ balls' = Append(Tail(balls), new)
            /\ sceneBalls' = (sceneBalls \ {balls[1].id}) \cup {nextId}
            /\ worldBalls' = (worldBalls \ {balls[1].id}) \cup {nextId}
       ELSE /\ balls' = Append(balls, new)
            /\ sceneBalls' = sceneBalls \cup {nextId}
            /\ worldBalls' = worldBalls \cup {nextId}]_vars

\* a spawn has evicted: the first projectile is gone, the newest is listed
C2_Witness ==
  /\ Len(balls) = BALL_LIMIT
  /\ balls[Len(balls)].id = nextId - 1
  /\ 1 \notin IdsOf(balls)
  /\ streak = BALL_LIMIT + 1

\* C3: after N > BALL_LIMIT spawns in a row with no expiry and no clear-all
\* between them the list holds exactly the last BALL_LIMIT projectiles
\* spawned, in spawn order.
C3_LastCapRemain ==
  streak > BALL_LIMIT =>
    /\ Len(balls) = BALL_LIMIT
    /\ \A i \in 1..BALL_LIMIT : balls[i].id = nextId - 1 - BALL_LIMIT + i

\* a run of BALL_LIMIT + 2 spawns: two evictions in a row
C3_Witness == streak > BALL_LIMIT /\ nextId = BALL_LIMIT + 3 /\ now = 0

\* C4: in every state between handlers each listed projectile has its
\* visual in the scene and its body in the world, and no projectile visual
\* or body is left in the scene or the world without an entry.
C4_Paired ==
  /\ sceneBalls = IdsOf(balls)
  /\ worldBalls = IdsOf(balls)
  /\ Cardinality(IdsOf(balls)) = Len(balls)

\* some projectile has been removed while another is still listed
C4_Witness == Len(balls) >= 1 /\ Len(balls) < nextId - 1

\* C5: the expiry sweep of a frame at time now keeps exactly the
\* projectiles with now - bornAt <= BALL_LIFETIME, in their order.
Fresh(b) == now - b.bornAt <= BALL_LIFETIME
C5_ExpirySweep == [][balls' = SelectSeq(balls, Fresh) \/ ~IsFrame]_vars

\* a sweep has removed a projectile and kept a younger one (a clear-all
\* leaves none, a spawn makes streak positive)
C5_Witness == streak = 0 /\ Len(balls) >= 1

\* C6: clearAllBalls terminates and leaves the list, the scene and the
\* world without projectiles.
C6_ClearAll ==
  [][\A c \in Controllers, u \in UiObjects :
       (selectBranch(c, u) = "ui-clear" /\ SelectStart(c, u)) =>
         /\ clearAllBalls(StoreNow).done
         /\ balls' = <<>>
         /\ sceneBalls' = {}
         /\ worldBalls' = {}]_vars

\* a full list was spawned and cleared before the clock moved: nothing can
\* have expired
C6_Witness == balls = <<>> /\ nextId = BALL_LIMIT + 1 /\ now = 0 /\ worldBalls = {}

\* C7: once the floor is locked a select event leaves the lock flag, the
\* ground height and the grid height as they are.
C7_LockedFloorIgnoresSelect ==
  [][floorLocked =>
       \/ floorLocked' /\ groundY' = groundY /\ gridY' = gridY
       \/ ~IsSelect]_vars

\* after the lock a trigger pull has fired a projectile, and a candidate
\* pose at another height is cached
C7_Witness ==
  /\ floorLocked /\ xrActive /\ nextId > 1
  /\ lastHitPose # NoPose /\ lastHitPose # Pose(groundY)

\* C8: the floor is locked only by a select event of the left controller
\* that presses no panel button, while the reticle is visible and a pose is
\* cached; at most once per session.
C8_LockOnlyByLeftWithPose ==
  /\ [][FloorLocks =>
          /\ xrActive /\ reticleVisible /\ lastHitPose # NoPose
          /\ \E c \in Controllers, u \in UiObjects :
               /\ SelectStart(c, u)
               /\ c = leftController
               /\ tryPressUIButton(u) = "none"]_vars
  /\ [](lockCount <= 1)

\* the floor was locked in the running session
C8_Witness == floorLocked /\ xrActive /\ lockCount = 1

\* C9: the lock stores the vertical coordinate of the cached candidate pose
\* as ground height and as grid height; the two are equal in every state.
C9_LockStoresPoseHeight ==
  /\ [][FloorLocks =>
          /\ lastHitPose # NoPose
          /\ groundY' = lastHitPose.y
          /\ gridY' = lastHitPose.y]_vars
  /\ [](groundY = gridY)

\* the floor was locked at the highest height a pose can report
C9_Witness == floorLocked /\ groundY = MaxHeight /\ gridY = MaxHeight

\* C10: no handler but the session-end handler (which does not either)
\* takes floorLocked from true to false.
C10_NeverUnlocked == [][floorLocked => (floorLocked' \/ SessionEnd)]_vars

\* the floor is locked, and later frames lost the surface, a projectile was
\* fired and its timer ran
C10_Witness ==
  /\ floorLocked /\ xrActive /\ lastHitPose = NoPose
  /\ nextId > 1 /\ timers = {}

\* a step of the sessionend handler
SessionEnds == xrActive /\ ~xrActive'

\* C11: when the session ends, the floor-lock flag is reset to unlocked and
\* the cached candidate pose is cleared.
C11_SessionEndResets ==
  [][SessionEnds => (~floorLocked' /\ lastHitPose' = NoPose)]_vars

\* what a step does, among the four things a select event can do
B(x) == IF x THEN 1 ELSE 0
DidLock == floorLocked' # floorLocked \/ groundY' # groundY \/ gridY' # gridY
DidPlace == colliders' # colliders
DidSpawn == nextId' # nextId
DidUi == meshCollisionsEnabled' # meshCollisionsEnabled \/ Len(balls') < Len(balls)

\* C13: every select event performs at most one of lock floor, place a
\* collider, spawn a projectile, UI button action; when no guard matches it
\* leaves the floor flag, the colliders list and the balls list unchanged.
C13_AtMostOneAction ==
  [][/\ \/ B(DidLock) + B(DidPlace) + B(DidSpawn) + B(DidUi) <= 1
        \/ ~IsSelect
     /\ \/ UNCHANGED <<floorLocked, colliders, balls>>
        \/ ~(/\ UNCHANGED <<now, sessVars, ctrlVars>>
             /\ \E c \in Controllers, u \in UiObjects :
                  /\ selectBranch(c, u) \in {"inactive", "none"}
                  /\ SelectStart(c, u))]_vars

\* each of the four actions has been performed in this session
C13_Witness ==
  /\ xrActive /\ floorLocked /\ colliders # <<>>
  /\ nextId > 1 /\ balls # <<>> /\ ~meshCollisionsEnabled

\* C14: a select event that hits no UI button is routed in priority order:
\* floor unset, candidate pose cached, left controller: lock the floor;
\* else right controller and a pose cached: place one collider; else floor
\* locked and left controller: spawn one projectile.
C14_RoutingPriority ==
  [][\A c \in Controllers, u \in UiObjects :
       (tryPressUIButton(u) = "none" /\ SelectStart(c, u)) =>
         IF ~floorLocked /\ lastHitPose # NoPose /\ c = leftController
         THEN floorLocked' /\ ~DidPlace /\ ~DidSpawn
         ELSE IF c = rightController /\ lastHitPose # NoPose
         THEN Len(colliders') = Len(colliders) + 1 /\ ~DidLock /\ ~DidSpawn
         ELSE IF floorLocked /\ c = leftController
         THEN nextId' = nextId + 1 /\ ~DidLock /\ ~DidPlace
         ELSE ~DidLock /\ ~DidPlace /\ ~DidSpawn]_vars

\* surfaces with a record in a tracked-surface map; the bodies its records hold
Tracked(map) == {k \in Surfaces : map[k] # NoRec}
BodiesOf(map) == {map[k].body : k \in Tracked(map)}

\* C12: when the sessionend handler returns, the tracked-surface map is
\* empty, every body a tracked surface referenced is out of the physics
\* world and every debug visual of a tracked surface is out of the scene.
C12_SessionEndTearsDown ==
  [][SessionEnds =>
       /\ Tracked(meshMap') = {}
       /\ \A k \in Tracked(meshMap) :
            /\ meshMap[k].body \notin worldMeshes'
            /\ meshMap[k].debugMesh \notin sceneDebug']_vars

\* the session is over; its last processed batch reported two surfaces, near
\* and with a triangle each, which it left tracked; nothing is left of them
C12_Witness ==
  /\ ~xrActive /\ nextBody = 3 /\ Tracked(meshMap) = {} /\ worldMeshes = {}
  /\ removeReq[1] = 1 /\ removeReq[2] = 1
  /\ lastDetected.present /\ Len(lastDetected.meshes) = 2
  /\ \A i \in 1..2 : lastDetected.meshes[i].dist = 0
                       /\ Len(lastDetected.meshes[i].indices) = 3

(***************************************************************************)
(* Steps of handleDetectedMeshes.  lastDetected' is the list a processed   *)
(* call worked on; the unprimed tracker variables are the state it found.  *)
(***************************************************************************)
\* a frame whose call of handleDetectedMeshes passes the throttle and the
\* null test (the counter changes in every call and in no other handler)
ProcessedCall ==
  /\ meshFrameCounter' # meshFrameCounter
  /\ meshFrameCounter' = 0
  /\ lastDetected'.present

\* the surfaces a detection list reports
KeysOf(detected) == {detected.meshes[i].key : i \in 1..Len(detected.meshes)}

\* the loop body throws for this entry: an untracked surface without a
\* vertex buffer that passes the label and pose tests
Throws(m) ==
  meshMap[m.key] = NoRec /\ ~m.hasVertices /\ semanticsAccepted(m) /\ m.hasPose

\* the radius the distance test uses: the cached one of a tracked surface,
\* the estimate of an untracked one
RadiusFor(m) ==
  IF meshMap[m.key] # NoRec THEN meshMap[m.key].radius ELSE estimateRadius(m.vertices)
InRange(m) == m.dist - RadiusFor(m) <= MAX_MESH_DISTANCE

\* the loop reaches entry i: fewer than MAX_MESHES entries ahead of it and
\* none of them throws
Reached(detected, i) ==
  /\ i - 1 < MAX_MESHES
  /\ \A j \in 1..(i - 1) : ~Throws(detected.meshes[j])

\* entry i gets past the label and pose tests
Sampled(detected, i) ==
  /\ Reached(detected, i)
  /\ semanticsAccepted(detected.meshes[i])
  /\ detected.meshes[i].hasPose

\* entry i arrives at the create / update branches
Observed(detected, i) == Sampled(detected, i) /\ InRange(detected.meshes[i])

\* C15: after every processed call of handleDetectedMeshes every tracked
\* surface is one the frame's detection list contained.
C15_OnlyReportedTracked ==
  [][ProcessedCall => Tracked(meshMap') \subseteq KeysOf(lastDetected')]_vars

\* C16: for every body ever created for a room surface, world.removeBody is
\* called exactly once after the body left its record: never twice, and
\* never zero times for a body no record holds.
C16_RemovedExactlyOnce ==
  \A b \in 1..MaxBodies :
    b < nextBody =>
      /\ removeReq[b] <= 1
      /\ b \notin BodiesOf(meshMap) => removeReq[b] = 1

\* C20: after every processed call the tracked-surface map holds at most
\* MAX_MESHES records.
C20_CapRespected ==
  [][ProcessedCall => Cardinality(Tracked(meshMap')) <= MAX_MESHES]_vars

\* the record of surface k is still there after the step, and altered
Rebuilt(k) == meshMap'[k] # NoRec /\ meshMap'[k] # meshMap[k]

\* entry i of the list reports a tracked surface with a tag no newer than
\* the stored one
StaleTag(detected, i) ==
  /\ detected.meshes[i].key \in Tracked(meshMap)
  /\ detected.meshes[i].lastChangedTime
       <= meshMap[detected.meshes[i].key].lastChangedTime

RebuildDue(detected, i) ==
  /\ detected.meshes[i].key \in Tracked(meshMap)
  /\ Observed(detected, i)
  /\ detected.meshes[i].lastChangedTime
       > meshMap[detected.meshes[i].key].lastChangedTime
  /\ ~createTrimeshShapeCapped(detected.meshes[i]).null

\* C18: when a tracked surface is observed with a newer tag and shape
\* construction succeeds, the old body is removed from the world and a newly
\* created body is added and stored in the record; afterwards the surface
\* has exactly one body in the world, no body in the world is without a
\* record, and the stored tag is the observed tag.
C18_RebuildReplacesBody ==
  [][ProcessedCall =>
       \A i \in 1..Len(lastDetected'.meshes) :
         LET m == lastDetected'.meshes[i]
             old == meshMap[m.key].body
             new == meshMap'[m.key].body
         IN
         RebuildDue(lastDetected', i) =>
           /\ meshMap'[m.key] # NoRec
           /\ old \notin worldMeshes'
           /\ new >= nextBody /\ new < nextBody'
           /\ new \in worldMeshes'
           /\ removeReq'[new] = 0
           /\ meshMap'[m.key].lastChangedTime = m.lastChangedTime
           /\ worldMeshes' \subseteq BodiesOf(meshMap')
           /\ \A k \in Tracked(meshMap') \ {m.key} : meshMap'[k].body # new]_vars

\* the last processed batch reported surface 1 near, with the newest tag and
\* a triangle; its record holds that tag and the second body, which is in
\* the world, while the first body has been removed
C18_Witness ==
  /\ lastDetected.present /\ meshFrameCounter = 0 /\ nextBody = 3
  /\ meshMap[1] # NoRec /\ meshMap[1].body = 2
  /\ meshMap[1].lastChangedTime = MaxTag
  /\ worldMeshes = {2} /\ removeReq[1] = 1 /\ removeReq[2] = 0
  /\ \E i \in 1..Len(lastDetected.meshes) :
       /\ lastDetected.meshes[i].key = 1 /\ lastDetected.meshes[i].dist = 0
       /\ lastDetected.meshes[i].lastChangedTime = MaxTag
       /\ Len(lastDetected.meshes[i].indices) = 3

\* C19: in a processed frame a detected surface whose distance minus its
\* radius exceeds MAX_MESH_DISTANCE is not tracked afterwards, whether it
\* was tracked or not; a tracked surface within that distance that the loop
\* takes to the distance test keeps its record.
C19_DistanceCull ==
  [][ProcessedCall =>
       \A i \in 1..Len(lastDetected'.meshes) :
         LET m == lastDetected'.meshes[i] IN
         (m.key \in Tracked(meshMap) \/ m.hasVertices) =>
           /\ ~InRange(m) => meshMap'[m.key] = NoRec
           /\ (/\ InRange(m) /\ m.key \in Tracked(meshMap)
               /\ i - 1 < MAX_MESHES /\ semanticsAccepted(m) /\ m.hasPose)
                => meshMap'[m.key] # NoRec]_vars

\* the surface of entry m got a body built in this call
BuiltNow(m) ==
  /\ meshMap'[m.key] # NoRec
  /\ meshMap'[m.key].body >= nextBody
  /\ meshMap'[m.key].body < nextBody'

\* triangle n (from 0) of a flat index buffer
Triangle(buf, n) == <<buf[3 * n + 1], buf[3 * n + 2], buf[3 * n + 3]>>

\* C21: for a buffer of T triangles and the cap C, with T > C the shape
\* built holds exactly ceil(T / stride) triangles, stride = ceil(T / C),
\* namely the triangles 0, stride, 2 * stride, ... of the buffer, each with
\* its three vertex indices in the original order; with T <= C the shape
\* holds the index buffer unchanged.
C21_StrideSubsampling ==
  [][ProcessedCall =>
       \A i \in 1..Len(lastDetected'.meshes) :
         LET m == lastDetected'.meshes[i]
             T == Len(m.indices) \div 3
             C == MAX_TRIANGLES_PER_MESH
             stride == ceil(T, C)
             shape == meshMap'[m.key].shape
         IN
         BuiltNow(m) =>
           IF T > C
           THEN /\ Len(shape) = 3 * ceil(T, stride)
                /\ \A n \in 0..(ceil(T, stride) - 1) :
                     Triangle(shape, n) = Triangle(m.indices, n * stride)
           ELSE shape = m.indices]_vars

\* a buffer of more than twice the cap has been built into a shape of fewer
\* triangles than the cap allows, the last of them not the buffer's last
C21_Witness ==
  /\ lastDetected.present /\ Len(lastDetected.meshes) = 1
  /\ Len(lastDetected.meshes[1].indices) = 3 * MaxTriCount + 1
  /\ meshMap[1] # NoRec
  /\ meshMap[1].lastChangedTime = lastDetected.meshes[1].lastChangedTime
  /\ Len(meshMap[1].shape) = 3 * ceil(MaxTriCount, ceil(MaxTriCount, MAX_TRIANGLES_PER_MESH))
  /\ meshMap[1].shape[1] = 0
  /\ meshMap[1].shape[4] = 3 * ceil(MaxTriCount, MAX_TRIANGLES_PER_MESH)


\* a list without its entry i
Without(seq, i) == SubSeq(seq, 1, i - 1) \o SubSeq(seq, i + 1, Len(seq))

\* entry i gets to the point where a shape is needed for it, and none can be
\* built: a new surface, or a tracked one within range with a newer tag
ConstructionFails(detected, i) ==
  LET m == detected.meshes[i] IN
  /\ Sampled(detected, i)
  /\ createTrimeshShapeCapped(m).null
  /\ IF meshMap[m.key] # NoRec
     THEN InRange(m) /\ tagChanged(meshMap[m.key], m)
     ELSE ~m.hasVertices \/ InRange(m)

\* C22: when shape construction fails for one surface of a batch (null
\* buffers, zero triangles, a throwing Trimesh constructor), no exception
\* leaves the frame callback and every other surface ends up as it would
\* if the failing surface were not in the batch.
C22_FailureIsolated ==
  [][ProcessedCall =>
       /\ ~frameThrew'
       /\ \A i \in 1..Len(lastDetected'.meshes) :
            ConstructionFails(lastDetected', i) =>
              LET rest == Detected(Without(lastDetected'.meshes, i))
                  alone == handleDetectedMeshes(MeshNow, rest)
              IN
              \A k \in Surfaces \ {lastDetected'.meshes[i].key} :
                meshMap'[k] = alone.map[k]]_vars

\* the place of a step in the order of the frame callback; 0 for a step the
\* order does not name
StepRank(step) ==
  CASE step = "physics" -> 1
    [] step = "sweep" -> 2
    [] step = "hittest" -> 3
    [] step = "meshes" -> 4
    [] step = "sync" -> 5
    [] step = "render" -> 6
    [] OTHER -> 0

C24_PlacedSurfacesStay ==
  [][/\ Len(colliders') \in {Len(colliders), Len(colliders) + 1}
     /\ SubSeq(colliders', 1, Len(colliders)) = colliders
     /\ worldColliders \subseteq worldColliders'
     /\ sceneColliders \subseteq sceneColliders'
     /\ \A i \in 1..Len(colliders') :
          /\ colliders'[i].id \in worldColliders'
          /\ colliders'[i].id \in sceneColliders'
     /\ IF Len(colliders') = Len(colliders) + 1
        THEN /\ colliders'[Len(colliders')].id \notin worldColliders \cup sceneColliders
             /\ worldColliders' = worldColliders \cup {colliders'[Len(colliders')].id}
             /\ sceneColliders' = sceneColliders \cup {colliders'[Len(colliders')].id}
        ELSE worldColliders' = worldColliders /\ sceneColliders' = sceneColliders]_vars

\* surfaces were placed in an earlier session, projectiles have been cleared
\* and room surfaces tracked and torn down since, and every placed surface
\* is still there
C24_Witness ==
  /\ ~xrActive /\ Len(colliders) = MaxColliders
  /\ nextId > 1 /\ balls = <<>>
  /\ nextBody > 1 /\ worldMeshes = {}
  /\ Cardinality(worldColliders) = Len(colliders)

\* C25: from a sessionend event to the next sessionstart event
\* hitTestSource and viewerSpace are null, whenever the requests of the
\* sessionstart handler settle.
C25_NullAfterSessionEnd == ~xrActive => (~hitTestSource /\ ~viewerSpace)

\* a step of the deferred callback of spawnBall: pending callbacks go, none
\* comes
TimerRuns == timers' \subseteq timers /\ timers' # timers

\* C26: however the deferred re-enable callback interleaves with the other
\* handlers, the body it writes is still in the physics world, and it leaves
\* the balls list and the world membership as they are.
C26_TimerWritesLiveBody ==
  [][TimerRuns =>
       /\ UNCHANGED <<balls, worldBalls, sceneBalls>>
       /\ \A tm \in timers \ timers' : tm.id \in worldBalls]_vars

\* the timer callback of projectile b is not pending beyond the last clock
\* value
TimerCanRun(b) == \A tm \in timers : tm.id = b => tm.due <= MaxTime

\* C27: a projectile enters the physics world with collision response
\* disabled; a listed projectile whose collision response is enabled keeps
\* it enabled; and a listed projectile whose timer callback gets to run
\* eventually has collision response enabled, unless it leaves the list.
C27_WarmUpEnds ==
  /\ [][/\ \A b \in worldBalls' \ worldBalls : b \in collisionOff'
        /\ \A b \in IdsOf(balls) \cap IdsOf(balls') :
             b \notin collisionOff => b \notin collisionOff']_vars
  /\ \A b \in 1..MaxSpawn :
       (b \in IdsOf(balls) /\ TimerCanRun(b))
         ~> (b \notin IdsOf(balls) \/ b \notin collisionOff)

\* a projectile is listed with collision response enabled, its callback
\* having run, while a younger one is still in its warm-up
C27_Witness ==
  /\ Len(balls) = 2
  /\ balls[1].id \notin collisionOff
  /\ balls[2].id \in collisionOff
  /\ \A tm \in timers : tm.id # balls[1].id

\* the lifetime of listed projectile b ends before the last clock value
ExpiryInRange(b) ==
  \E i \in 1..Len(balls) : balls[i].id = b /\ balls[i].bornAt + BALL_LIFETIME < MaxTime

\* C28: when the frame callback keeps being called and the clock keeps
\* advancing, every spawned projectile eventually is in neither the balls
\* list, the physics world nor the scene, with or without an active session.
C28_EveryBallGoes ==
  \A b \in 1..MaxSpawn :
    ExpiryInRange(b)
      ~> (b \notin IdsOf(balls) /\ b \notin worldBalls /\ b \notin sceneBalls)

\* the session is over, the clock has run out, and every projectile fired
\* is gone, the last of them by the cap or by expiry
C28_Witness ==
  /\ ~xrActive /\ now = MaxTime /\ nextId > BALL_LIMIT + 1
  /\ balls = <<>> /\ worldBalls = {} /\ sceneBalls = {}

\* C29: in src/src/main.js a select event from a controller other than the
\* left one never takes the floor from unlocked to locked.
C29_OnlyLeftLocks ==
  [][(~floorLocked /\ floorLocked')
       => \A c \in Controllers : MainSelectStart(c) => c = leftController]_vars

\* C30: in src/src/main.js a select event spawns a projectile only if the
\* floor is locked and the event came from the left controller.
C30_FireNeedsLockedFloor ==
  [][(nextId' > nextId)
       => \A c \in Controllers :
            MainSelectStart(c) => (floorLocked /\ c = leftController)]_vars

\* C31: in src/src/main.js, whenever the floor is locked, the hit test has
\* left a candidate pose and there is room for a collider, a select event
\* from the right controller places exactly one box collider at that pose.
C31_RightSelectPlaces ==
  (main_hitTestRuns /\ floorLocked /\ lastHitPose # NoPose
     /\ rightController # Null /\ Len(colliders) < MaxColliders)
    => ENABLED (/\ MainSelectStart(rightController)
                /\ Len(colliders') = Len(colliders) + 1
                /\ colliders'[Len(colliders')].y = lastHitPose.y)

\* C32: in the first snapshot of part_001, in a session whose hit-test
\* negotiation has ended without a hit-test source, a trigger press of the
\* left controller that hits no UI button spawns a projectile.
C32_FiresWithoutHitTest ==
  (xrActive /\ pendViewer + pendHit = 0 /\ ~hitTestSource
     /\ leftController # Null /\ nextId <= MaxSpawn)
    => ENABLED (P1SelectStart(leftController, "none") /\ nextId' = nextId + 1)

\* C33: in a session whose hit-test negotiation has ended without a
\* hit-test source, the ground collider is at the default height 0, also
\* when an earlier session had locked the floor.
C33_DefaultHeightWithoutHitTest ==
  (xrActive /\ pendViewer + pendHit = 0 /\ ~hitTestSource) => groundY = 0

\* C34: a frame callback that has no hit-test capability, or whose hit test
\* returns no results, ends with no candidate pose: lastHitPose is null and
\* the reticle is hidden.
C34_NoCandidateWithoutResults ==
  ~ENABLED (/\ Frame(HitEmpty, NoPad, NoDetection)
            /\ ~(lastHitPose' = NoPose /\ ~reticleVisible'))

\* the record of surface k holds a body that is not in the world: the last
\* rebuild of k removed the old body and built no new one
RebuildFailed(k) == meshMap[k] # NoRec /\ meshMap[k].body \notin worldMeshes

\* C35: after a shape-construction failure for a surface, the next
\* processed call that takes the surface to the create / update branches
\* with buffers from which a shape can be built builds a body for it,
\* whatever its modification tag: for a surface left untracked by the
\* failure and for a tracked surface whose rebuild failed.
C35_FailureRetried ==
  [][ProcessedCall =>
       \A i \in 1..Len(lastDetected'.meshes) :
         LET m == lastDetected'.meshes[i] IN
         (/\ Observed(lastDetected', i)
          /\ ~createTrimeshShapeCapped(m).null
          /\ (meshMap[m.key] = NoRec \/ RebuildFailed(m.key)))
           => BuiltNow(m)]_vars

OutsideFrame ==
  \/ \E c \in Controllers, u \in UiObjects : SelectStart(c, u)
  \/ SessionStart
  \/ SessionEnd
  \/ \E tm \in timers : TimerFires(tm)

\* C37: the projectile list, the tracked-surface map and the floor-lock
\* flag are changed only inside the frame callback: no run of a select-event
\* handler, of a session start or end handler or of a timer callback
\* changes any of the three.
C37_OnlyFrameMutates ==
  [][(balls' # balls \/ meshMap' # meshMap \/ floorLocked' # floorLocked)
       => ~OutsideFrame]_vars

\* C38: when an animation-loop callback or a sessionend handler has ended,
\* the body stored in every record of the tracked-surface map is in the
\* physics world, also after batches with changed surfaces whose rebuild
\* fails.
C38_TrackedBodyInWorld == BodiesOf(meshMap) \subseteq worldMeshes

\* C39: a processed frame destroys the record of a tracked surface only if
\* the frame's detection list does not contain the surface or the surface
\* is outside the distance cap: a tracked surface that is reported within
\* range keeps its record, wherever it is in the list, however many
\* surfaces are reported and whether or not its pose is available.
C39_DestroyedOnlyIfGoneOrFar ==
  [][ProcessedCall =>
       \A i \in 1..Len(lastDetected'.meshes) :
         LET m == lastDetected'.meshes[i] IN
         (m.key \in Tracked(meshMap) /\ InRange(m)) => meshMap'[m.key] # NoRec]_vars

\* C40: in part_002 handleDetectedMeshes processes the detection list on
\* exactly every DETECTED_MESH_UPDATE_RATE-th call (every 2nd, starting with
\* the 2nd): such a call, given a list, tracks every surface without a
\* record that it observes with buffers a shape can be built from; every
\* other call leaves the tracked-surface map, the physics world and the
\* scene unchanged.
C40_EveryRateThCall ==
  [][meshCalls' # meshCalls =>
       IF meshCalls' = 0
       THEN /\ meshFrameCounter' = 0
            /\ \A i \in 1..Len(lastDetected'.meshes) :
                 LET m == lastDetected'.meshes[i] IN
                 (/\ Observed(lastDetected', i)
                  /\ meshMap[m.key] = NoRec
                  /\ ~createTrimeshShapeCapped(m).null) => BuiltNow(m)
       ELSE UNCHANGED <<meshMap, worldMeshes, sceneDebug>>]_vars

\* the latest call was a DETECTED_MESH_UPDATE_RATE-th one, was given two
\* surfaces and has left both tracked with a body in the world
C40_Witness ==
  /\ meshCalls = 0 /\ meshFrameCounter = 0
  /\ lastDetected.present /\ Len(lastDetected.meshes) = 2
  /\ Cardinality(Tracked(meshMap)) = 2
  /\ Cardinality(worldMeshes) = 2

====
